---- MODULE Spec2Model ----
(***************************************************************************)
(* A model of go-pgsql: the connection pool (pool.go) and the connection   *)
(* engine (Conn, Statement, ResultSet, the state objects and the reader).  *)
(***************************************************************************)
EXTENDS Integers, Sequences, FiniteSets, TLC

(***************************************************************************)
(* Bounds of the model.                                                    *)
(***************************************************************************)
NumWorkers == 2
MaxPoolSize == 2
MaxSec == 1
MaxNsTicks == 1
NumRows == 1
MaxCalls == 7
MaxResultSets == 2
MaxStmts == 1
MaxLen == 4
MaxParams == 2
MaxUnread == 1
MaxChunks == 1

(***************************************************************************)
(* Program constants.                                                      *)
(***************************************************************************)
MinIdleTimeout == 5
Second == 1000000000

\* Connect hands out connections 1..MaxConnId
MaxConnId == MaxPoolSize + 1

\* the clock is observed every NsTick nanoseconds and every second
NsTick == MinIdleTimeout

Workers == 1..NumWorkers
NoConn == 0

VARIABLES
  created,      \* NewPool has returned a *Pool
  p,            \* the pool struct: max, min, n, conns, closed, timeout
  clock,        \* time.Now(): [s, ns], s whole seconds and ns nanoseconds
  nextConnId,   \* the next connection Connect will hand out
  closedConns,  \* the connections on which Conn.Close has been called
  wpc,          \* per worker goroutine: "idle", "wait", "woken", "holding"
  held,         \* per worker: the connection Acquire returned to it
  ret,          \* the error returned by the last Acquire to return
  waiters,      \* the notify list of p.cond, in ticket order
  tc,           \* the timeoutCloser goroutine: pc, wakeAt, synced
  closeRet,     \* the value the last Pool.Close returned
  pooled,       \* per connection of the pool: state, reader, tcpConn
  got           \* per worker: the first message its Query read

poolVars == <<created, p, clock, nextConnId, closedConns, wpc, held, ret,
              waiters, tc, closeRet, pooled, got>>

VARIABLES
  conn,         \* the Conn: state, transactionStatus, nextSavepointId
  inbox,        \* backend messages sent by the server and not yet read
  srv,          \* the backend session: tx, committed, log, portal
  rss,          \* the ResultSets returned to the application, by number
  stmts,        \* the Statements returned to the application, by number
  stack,        \* the WithTransaction / WithSavepoint calls whose body runs
  last,         \* the last call on the connection: op, state0, sent, err
  exc,          \* the position in the sequence of Test_Query_Exception
  calls,        \* the number of calls the application has made
  work          \* the next row an INSERT of the application adds

connVars == <<conn, inbox, srv, rss, stmts, stack, last, exc, calls, work>>

VARIABLES
  prep          \* a call of newStatement: command, params, actualCommand, err

vars == <<poolVars, connVars, prep>>

(***************************************************************************)
(* Time: a time.Time is [s, ns]; a small time.Duration is a number of      *)
(* nanoseconds.                                                            *)
(***************************************************************************)
TimeLeq(a, b) == a.s < b.s \/ (a.s = b.s /\ a.ns <= b.ns)

\* now.Sub(atime) > d, for atime <= now and 0 <= d < Second
SubGreater(now, atime, d) ==
  IF now.ns >= atime.ns
    THEN now.s - atime.s > 0 \/ now.ns - atime.ns > d
    ELSE now.s - atime.s - 1 > 0 \/ Second + now.ns - atime.ns > d

\* now.Sub(atime) in nanoseconds, when it is less than a second
SubNs(now, atime) ==
  IF now.ns >= atime.ns THEN now.ns - atime.ns ELSE Second + now.ns - atime.ns

(***************************************************************************)
(* container/list over poolConn{Conn, atime}                               *)
(***************************************************************************)
PushFront(l, e) == <<e>> \o l
PushBack(l, e) == Append(l, e)
Front(l) == Head(l)
RemoveFront(l) == Tail(l)

poolConn(c, t) == [conn |-> c, atime |-> t]

IdleConns == {p.conns[i].conn : i \in 1..Len(p.conns)}

\* Connect can succeed while the server has connections to give
CanConnect == nextConnId <= MaxConnId

StatusDisconnected == "Disconnected"
StatusReady == "Ready"
StatusProcessingQuery == "ProcessingQuery"
StatusCopy == "Copy"

\* a backend message on a pooled connection: its code and the worker whose
\* command it answers
Msg(code, w) == [code |-> code, from |-> w]
NoMsg == Msg("", 0)

\* a connection as Connect returns it: c.state, the messages buffered in
\* c.reader and the messages waiting in c.tcpConn
NewConn == [state |-> StatusReady, reader |-> <<>>, tcpConn |-> <<>>]

NoPool == [max |-> 0, min |-> 0, n |-> 0, conns |-> <<>>, closed |-> FALSE,
           timeout |-> 0]

PoolInit ==
  /\ created = FALSE
  /\ p = NoPool
  /\ clock = [s |-> 0, ns |-> 0]
  /\ nextConnId = 1
  /\ closedConns = {}
  /\ wpc = [w \in Workers |-> "idle"]
  /\ held = [w \in Workers |-> NoConn]
  /\ ret = "none"
  /\ waiters = <<>>
  /\ tc = [pc |-> "none", wakeAt |-> [s |-> 0, ns |-> 0], synced |-> TRUE]
  /\ closeRet = "none"
  /\ pooled = [c \in 1..MaxConnId |-> NewConn]
  /\ got = [w \in Workers |-> NoMsg]

(***************************************************************************)
(* The connection: constants of conn.go and the state after Connect.       *)
(***************************************************************************)
NotInTransaction == "I"
InTransaction == "T"
InFailedTransaction == "E"

NoError == "nil"
invalidOpForStateMsg == "invalid operation for this state"
PgsqlError == "*pgsql.Error"
IoError == "io error"
NilDereference == "nil pointer dereference"
\* not a value: the call never returns, it waits for a message forever
NeverReturns == "blocked"

\* an SQL command, and the isolation levels of WithTransaction
Cmd(k, n) == [k |-> k, n |-> n]
NoCmd == Cmd("", 0)
ReadCommittedIsolation == 0
SerializableIsolation == 1

\* a message written ("F") or read ("B") by a call
Io(dir, msg) == [dir |-> dir, msg |-> msg]
NoIo == Io("", "")

NoCall == [op |-> "none", state0 |-> StatusReady, tx0 |-> NotInTransaction,
           arg |-> 0, rs |-> 0,
           body |-> "", old |-> "", sent |-> <<>>, err |-> NoError,
           escaped |-> FALSE, ret |-> FALSE, io |-> <<>>, lastIo |-> NoIo]

ConnInit ==
  /\ conn = [state |-> StatusReady, transactionStatus |-> NotInTransaction,
             nextSavepointId |-> 0, writer |-> <<>>]
  /\ inbox = <<>>
  /\ srv = [tx |-> NotInTransaction, committed |-> {}, log |-> <<>>,
            stmt |-> "", portal |-> "", skip |-> FALSE, copy |-> FALSE]
  /\ rss = <<>>
  /\ stmts = <<>>
  /\ stack = <<>>
  /\ last = NoCall
  /\ exc = [step |-> 0, rs |-> 0]
  /\ calls = 0
  /\ work = 1

\* no statement is being made
NoPrep == [command |-> <<>>, params |-> <<>>, actualCommand |-> <<>>,
           err |-> "nil", done |-> FALSE]

Init == PoolInit /\ ConnInit /\ prep = NoPrep

(***************************************************************************)
(* NewPool(connectParams, minConns, maxConns, idleTimeout)                 *)
(***************************************************************************)
\* mutant: the loop pushes one connection that is not counted in n
PrefillUncounted(l, first, k) == <<poolConn(first + k, clock)>> \o l

\* the idle list after the first connection and k pre-filled ones
RECURSIVE Prefill(_, _, _)
Prefill(l, first, k) ==
  IF k = 0 THEN l
  ELSE Prefill(PushFront(l, poolConn(first, clock)), first + 1, k - 1)

NewPoolValid(minConns, maxConns, idleTimeout) ==
  /\ ~(minConns < 1)
  /\ ~(maxConns < 1)
  /\ ~(idleTimeout < MinIdleTimeout)

NewPool(minConns, maxConns, idleTimeout) ==
  /\ ~created
  /\ NewPoolValid(minConns, maxConns, idleTimeout)
  /\ nextConnId + minConns - 1 <= MaxConnId   \* every Connect succeeds
  /\ created' = TRUE
  /\ p' = [max |-> maxConns, min |-> minConns, n |-> 1 + (minConns - 1),
           conns |-> Prefill(<<>>, nextConnId, minConns),
           closed |-> FALSE, timeout |-> idleTimeout]
  /\ nextConnId' = nextConnId + minConns
  /\ tc' = [tc EXCEPT !.pc = "test"]
  /\ UNCHANGED <<clock, closedConns, wpc, held, ret, waiters, closeRet>>
  /\ UNCHANGED <<connVars, prep, pooled, got>>

\* NewPool returns an error and no pool: an argument is out of range, or one
\* of its Connect calls fails
NewPoolFails(minConns, maxConns, idleTimeout, connectFails) ==
  /\ ~created
  /\ IF NewPoolValid(minConns, maxConns, idleTimeout)
       THEN connectFails
       ELSE ~connectFails
  /\ UNCHANGED vars

(***************************************************************************)
(* Pool.Acquire                                                            *)
(***************************************************************************)
\* cond.Wait: unlock, join the notify list, sleep until signalled
CondWait(w) ==
  /\ wpc' = [wpc EXCEPT ![w] = "wait"]
  /\ waiters' = Append(waiters, w)

\* mutant: the front entry is returned but stays in the list
TakeFrontKeepsEntry(w) ==
  /\ p' = p
  /\ held' = [held EXCEPT ![w] = Front(p.conns).conn]
  /\ wpc' = [wpc EXCEPT ![w] = "holding"]
  /\ ret' = "nil"

\* c = p.conns.Remove(p.conns.Front()).(poolConn).Conn; return c, nil
TakeFront(w) ==
  /\ p' = [p EXCEPT !.conns = RemoveFront(p.conns)]
  /\ held' = [held EXCEPT ![w] = Front(p.conns).conn]
  /\ wpc' = [wpc EXCEPT ![w] = "holding"]
  /\ ret' = "nil"

\* mutant: Acquire does not test p.closed
AcquireBodyIgnoresClosed(w, connectOk) ==
  IF Len(p.conns) > 0
    THEN /\ TakeFront(w)
         /\ UNCHANGED <<waiters, nextConnId>>
  ELSE IF p.n < p.max /\ connectOk /\ CanConnect
    THEN /\ p' = [p EXCEPT !.n = p.n + 1]
         /\ held' = [held EXCEPT ![w] = nextConnId]
         /\ nextConnId' = nextConnId + 1
         /\ wpc' = [wpc EXCEPT ![w] = "holding"]
         /\ ret' = "nil"
         /\ UNCHANGED waiters
  ELSE /\ CondWait(w)
       /\ UNCHANGED <<p, held, ret, nextConnId>>

AcquireBody(w, connectOk) ==
  IF p.closed
    THEN /\ ret' = "pool is closed"
         /\ UNCHANGED <<p, held, wpc, waiters, nextConnId>>
  ELSE IF Len(p.conns) > 0
    THEN /\ TakeFront(w)
         /\ UNCHANGED <<waiters, nextConnId>>
  ELSE IF Len(p.conns) = 0 /\ p.n < p.max
    THEN IF connectOk /\ CanConnect
           THEN /\ p' = [p EXCEPT !.n = p.n + 1]
                /\ held' = [held EXCEPT ![w] = nextConnId]
                /\ nextConnId' = nextConnId + 1
                /\ wpc' = [wpc EXCEPT ![w] = "holding"]
                /\ ret' = "nil"
                /\ UNCHANGED waiters
           ELSE /\ ret' = "connect failed"
                /\ UNCHANGED <<p, held, wpc, waiters, nextConnId>>
  ELSE /\ CondWait(w)
       /\ UNCHANGED <<p, held, ret, nextConnId>>

Acquire(w) ==
  /\ created
  /\ wpc[w] = "idle"
  /\ \E connectOk \in BOOLEAN : AcquireBody(w, connectOk)
  /\ UNCHANGED <<created, clock, closedConns, tc, closeRet>>
  /\ UNCHANGED <<connVars, prep, pooled, got>>

\* a signalled waiter re-locks and re-tests  for p.conns.Len() == 0
AcquireResume(w) ==
  /\ wpc[w] = "woken"
  /\ IF Len(p.conns) = 0
       THEN /\ CondWait(w)
            /\ UNCHANGED <<p, held, ret>>
       ELSE /\ TakeFront(w)
            /\ UNCHANGED waiters
  /\ UNCHANGED <<created, clock, nextConnId, closedConns, tc, closeRet>>
  /\ UNCHANGED <<connVars, prep, pooled, got>>

(***************************************************************************)
(* Pool.Release                                                            *)
(***************************************************************************)
\* cond.Signal wakes the goroutine at the head of the notify list, if any
CondSignal(w) ==
  IF waiters = <<>>
    THEN /\ wpc' = [wpc EXCEPT ![w] = "idle"]
         /\ UNCHANGED waiters
    ELSE /\ wpc' = [wpc EXCEPT ![w] = "idle", ![Head(waiters)] = "woken"]
         /\ waiters' = Tail(waiters)

\* mutant: the connection goes back as the holder left it
resetNever(c) == c

\* c.reader = bufio.NewReader(c.tcpConn); c.state = readyState{}: what the old
\* reader had buffered is gone, what waits in the socket stays
reset(c) == [c EXCEPT !.reader = <<>>, !.state = StatusReady]

Release(w) ==
  /\ wpc[w] = "holding"
  /\ held' = [held EXCEPT ![w] = NoConn]
  /\ IF ~p.closed
       THEN /\ pooled' = [pooled EXCEPT ![held[w]] = reset(pooled[held[w]])]
            /\ p' = [p EXCEPT !.conns = PushBack(p.conns, poolConn(held[w], clock))]
            /\ CondSignal(w)
       ELSE /\ wpc' = [wpc EXCEPT ![w] = "idle"]
            /\ UNCHANGED <<p, waiters, pooled>>
  /\ UNCHANGED <<created, clock, nextConnId, closedConns, ret, tc, closeRet, got>>
  /\ UNCHANGED <<connVars, prep>>

(***************************************************************************)
(* The holder of a connection uses it as the worker of the pool example    *)
(* does: conn.Query("SELECT now();"), and Release without rs.Close().      *)
(***************************************************************************)
\* the backend's answer to the Query of worker w
QueryAnswer(w) ==
  <<Msg("RowDescription", w), Msg("DataRow", w), Msg("CommandComplete", w),
    Msg("ReadyForQuery", w)>>

\* bufio.Reader: a read on an empty buffer takes the first k messages that
\* wait in the socket
fill(c, k) ==
  IF c.reader = <<>>
    THEN [c EXCEPT !.reader = SubSeq(c.tcpConn, 1, k),
                   !.tcpConn = SubSeq(c.tcpConn, k + 1, Len(c.tcpConn))]
    ELSE c

\* readyState.query: writeQuery, then readBackendMessages, which returns
\* after RowDescription, DataRow, CommandComplete or ReadyForQuery, whatever
\* comes first on the connection
WorkerQuery(w) ==
  /\ wpc[w] = "holding"
  /\ pooled[held[w]].state = StatusReady
  /\ Len(pooled[held[w]].tcpConn) <= MaxUnread
  /\ \E k \in 1..(Len(pooled[held[w]].tcpConn) + Len(QueryAnswer(w))) :
       \E c \in {fill([pooled[held[w]] EXCEPT
                         !.tcpConn = pooled[held[w]].tcpConn \o QueryAnswer(w)],
                       k)} :
         /\ got' = [got EXCEPT ![w] = Head(c.reader)]
         /\ pooled' = [pooled EXCEPT ![held[w]] =
                         [c EXCEPT !.reader = Tail(c.reader),
                                   !.state = StatusProcessingQuery]]
  /\ UNCHANGED <<created, p, clock, nextConnId, closedConns, wpc, held, ret,
                 waiters, tc, closeRet>>
  /\ UNCHANGED <<connVars, prep>>

(***************************************************************************)
(* Pool.close and Pool.Close                                               *)
(***************************************************************************)
\* mutant: the idle connections closed are not subtracted from n
closeKeepsCount(q) == [q EXCEPT !.conns = <<>>, !.closed = TRUE]

\* p.close(): close and remove every idle connection, n -= nConns, closed
close(q) == [q EXCEPT !.conns = <<>>, !.n = q.n - Len(q.conns), !.closed = TRUE]

\* mutant: Close does not test p.closed
CloseAlways ==
  /\ created
  /\ p' = close(p)
  /\ closedConns' = closedConns \cup IdleConns
  /\ closeRet' = IF close(p).n > 0 THEN "connections in use" ELSE "nil"
  /\ tc' = [tc EXCEPT !.synced = FALSE]
  /\ UNCHANGED <<created, clock, nextConnId, wpc, held, ret, waiters>>
  /\ UNCHANGED <<connVars, prep, pooled, got>>

Close ==
  /\ created
  /\ IF ~p.closed
       THEN /\ p' = close(p)
            /\ closedConns' = closedConns \cup IdleConns
            /\ closeRet' = IF close(p).n > 0 THEN "connections in use" ELSE "nil"
            /\ tc' = [tc EXCEPT !.synced = FALSE]
       ELSE /\ closeRet' = "nil"
            /\ UNCHANGED <<p, closedConns, tc>>
  /\ UNCHANGED <<created, clock, nextConnId, wpc, held, ret, waiters>>
  /\ UNCHANGED <<connVars, prep, pooled, got>>

(***************************************************************************)
(* timeoutCloser: the maintenance goroutine                                *)
(***************************************************************************)
\* for p != nil && !p.closed: read without the lock.  A read that races with
\* the write in Pool.close (no lock taken by this goroutine since) may still
\* see the old value.
TcTest ==
  /\ tc.pc = "test"
  /\ \E seen \in (IF p.closed /\ ~tc.synced THEN BOOLEAN ELSE {p.closed}) :
       tc' = [tc EXCEPT !.pc = IF seen THEN "done" ELSE "lock"]
  /\ UNCHANGED <<created, p, clock, nextConnId, closedConns, wpc, held, ret,
                 waiters, closeRet>>
  /\ UNCHANGED <<connVars, prep, pooled, got>>

\* the number of entries the eviction loop removes from the front of l
RECURSIVE Expired(_, _, _)
Expired(l, now, timeout) ==
  IF l # <<>> /\ SubGreater(now, Front(l).atime, timeout)
    THEN 1 + Expired(RemoveFront(l), now, timeout)
    ELSE 0

\* delay after the eviction loop over l: p.timeout, or what is left of it for
\* the first entry that has not timed out, plus one
Delay(l, now, timeout) ==
  IF Expired(l, now, timeout) < Len(l)
    THEN timeout - SubNs(now, l[Expired(l, now, timeout) + 1].atime) + 1
    ELSE timeout

\* mutant: the pass does not refill
RefillTriesNone(n, min) == 0

\* for i := p.n; i < p.min; i++: the number of Connect calls of the refill
RefillTries(n, min) == IF n < min THEN min - n ELSE 0

\* one pass of the loop body, under the lock, with connected of the refill's
\* Connect calls succeeding
TcBody(connected) ==
  LET e == Expired(p.conns, clock, p.timeout)
      kept == SubSeq(p.conns, e + 1, Len(p.conns))
      gone == {p.conns[i].conn : i \in 1..e}
  IN /\ tc.pc = "lock"
     /\ connected \in 0..RefillTries(p.n - e, p.min)
     /\ nextConnId + connected - 1 <= MaxConnId
     /\ p' = [p EXCEPT !.conns = Prefill(kept, nextConnId, connected),
                       !.n = p.n - e + connected]
     /\ closedConns' = closedConns \cup gone
     /\ nextConnId' = nextConnId + connected
     /\ tc' = [pc |-> "sleep", synced |-> TRUE,
               wakeAt |-> [s |-> clock.s + Delay(p.conns, clock, p.timeout),
                           ns |-> clock.ns]]
     /\ UNCHANGED <<created, clock, wpc, held, ret, waiters, closeRet>>
     /\ UNCHANGED <<connVars, prep, pooled, got>>

\* time.Sleep(delay * time.Second) returns
TcWake ==
  /\ tc.pc = "sleep"
  /\ TimeLeq(tc.wakeAt, clock)
  /\ tc' = [tc EXCEPT !.pc = "test", !.wakeAt = [s |-> 0, ns |-> 0]]
  /\ UNCHANGED <<created, p, clock, nextConnId, closedConns, wpc, held, ret,
                 waiters, closeRet>>
  /\ UNCHANGED <<connVars, prep, pooled, got>>

(***************************************************************************)
(* Time passes; the clock starts when NewPool returns.                     *)
(***************************************************************************)
TickNs ==
  /\ created
  /\ clock.ns < MaxNsTicks * NsTick
  /\ clock' = [clock EXCEPT !.ns = clock.ns + NsTick]
  /\ UNCHANGED <<created, p, nextConnId, closedConns, wpc, held, ret, waiters,
                 tc, closeRet>>
  /\ UNCHANGED <<connVars, prep, pooled, got>>

TickSec ==
  /\ created
  /\ clock.s < MaxSec
  /\ clock' = [clock EXCEPT !.s = clock.s + 1]
  /\ UNCHANGED <<created, p, nextConnId, closedConns, wpc, held, ret, waiters,
                 tc, closeRet>>
  /\ UNCHANGED <<connVars, prep, pooled, got>>

(***************************************************************************)
(* The pool and its goroutines.                                            *)
(***************************************************************************)
CallNewPool ==
  \E minConns \in 0..MaxPoolSize, maxConns \in 0..MaxPoolSize,
     idleTimeout \in {MinIdleTimeout - 1, MinIdleTimeout} :
       NewPool(minConns, maxConns, idleTimeout)

CallNewPoolFails ==
  \E minConns \in 0..MaxPoolSize, maxConns \in 0..MaxPoolSize,
     idleTimeout \in {MinIdleTimeout - 1, MinIdleTimeout},
     connectFails \in BOOLEAN :
       NewPoolFails(minConns, maxConns, idleTimeout, connectFails)

CallAcquire == \E w \in Workers : Acquire(w)
ResumeAcquire == \E w \in Workers : AcquireResume(w)
CallRelease == \E w \in Workers : Release(w)
CallWorkerQuery == \E w \in Workers : WorkerQuery(w)
RunTcBody == \E connected \in 0..MaxPoolSize : TcBody(connected)

PoolNext ==
  \/ CallNewPool
  \/ CallNewPoolFails
  \/ CallAcquire
  \/ ResumeAcquire
  \/ CallRelease
  \/ Close
  \/ TcTest
  \/ RunTcBody
  \/ TcWake
  \/ TickNs
  \/ TickSec

SpecPool == Init /\ [][PoolNext]_vars

\* the pool with workers that use their connections, while the maintenance
\* goroutine is not scheduled
PoolUseNext ==
  \/ CallNewPool
  \/ CallAcquire
  \/ ResumeAcquire
  \/ CallWorkerQuery
  \/ CallRelease
  \/ Close
  \/ TickNs

SpecPoolUse == Init /\ [][PoolUseNext]_vars

\* goroutines that can run are scheduled, and holders release
SpecPoolFair ==
  /\ SpecPool
  /\ \A w \in Workers : WF_vars(AcquireResume(w)) /\ WF_vars(Release(w))
  /\ WF_vars(TcTest) /\ WF_vars(RunTcBody) /\ WF_vars(TcWake)

(***************************************************************************)
(* Properties of the pool.                                                 *)
(***************************************************************************)
Holding(w) == wpc[w] = "holding"
Blocked(w) == wpc[w] \in {"wait", "woken"}

\* C1: the number of created connections never exceeds max
C1_NeverExceedsMax == created => p.n <= p.max

\* C2: a connection returned by Acquire and not yet released is held by one
\* worker only, is not in the idle list and has not been closed
C2_UniquelyOwned ==
  \A w \in Workers : Holding(w) =>
    /\ held[w] # NoConn
    /\ \A v \in Workers : (v # w /\ Holding(v)) => held[v] # held[w]
    /\ held[w] \notin IdleConns
    /\ held[w] \notin closedConns

\* two workers hold connections while the maintenance task or Close has
\* closed an idle one
C2_Witness ==
  /\ \A w \in Workers : Holding(w)
  /\ closedConns # {}

\* C3: an Acquire called on a closed pool returns the error "pool is closed"
\* and hands out no connection
C3_ClosedRejectsAcquire ==
  [][\A w \in Workers : (p.closed /\ Acquire(w)) =>
        (ret' = "pool is closed" /\ held'[w] = NoConn /\ ~Holding(w)')]_vars

\* an Acquire has failed on a closed pool
C3_Witness == created /\ p.closed /\ ret = "pool is closed"

\* C4: while the pool stays open and connections keep being released, every
\* worker blocked in Acquire eventually holds a connection (stated for pools
\* created with minConns <= maxConns)
C4_NoWaiterStarves ==
  ([](~p.closed /\ p.min <= p.max) /\ []<><<CallRelease>>_vars) =>
    \A w \in Workers : Blocked(w) ~> Holding(w)

(***************************************************************************)
(* The backend: what a PostgreSQL server answers to the frontend messages  *)
(* of this driver (protocol 3.0).  It answers each message as it arrives.  *)
(***************************************************************************)
\* frontend and backend messages
FE(code, c) == [code |-> code, cmd |-> c]
BE(code, status) == [code |-> code, status |-> status]

ReadyForQuery(tx) == BE("ReadyForQuery", tx)
DataRows == [i \in 1..NumRows |-> BE("DataRow", "")]

\* entries of the transaction's log: rows added, and savepoints
Row(n) == [sp |-> FALSE, id |-> n]
Savepoint(n) == [sp |-> TRUE, id |-> n]
RowsOf(log) == {log[j].id : j \in {k \in 1..Len(log) : ~log[k].sp}}
SavepointPos(log, n) ==
  LET S == {j \in 1..Len(log) : log[j] = Savepoint(n)}
  IN IF S = {} THEN 0 ELSE CHOOSE j \in S : \A k \in S : k <= j

Answer(s, out) == [srv |-> s, out |-> out \o <<ReadyForQuery(s.tx)>>]
Failed(s) ==
  [s EXCEPT !.tx = IF s.tx = NotInTransaction THEN NotInTransaction
                                              ELSE InFailedTransaction]
AnswerError(s, out) == Answer(Failed(s), out \o <<BE("ErrorResponse", "")>>)
RolledBack(s) == [s EXCEPT !.tx = NotInTransaction, !.log = <<>>]
CommandComplete == BE("CommandComplete", "")

\* a Query message: the simple protocol
BackendQuery(s, c) ==
  IF s.tx = InFailedTransaction /\ c.k \notin {"COMMIT", "ROLLBACK", "ROLLBACK TO"}
    THEN AnswerError(s, <<>>)
  ELSE IF c.k = "BEGIN"
    THEN IF s.tx = NotInTransaction
           THEN Answer([s EXCEPT !.tx = InTransaction],
                       <<CommandComplete, CommandComplete>>)
           ELSE Answer(s, <<BE("NoticeResponse", ""), CommandComplete,
                            CommandComplete>>)
  ELSE IF c.k = "COMMIT"
    THEN IF s.tx = InTransaction
           THEN Answer([s EXCEPT !.tx = NotInTransaction, !.log = <<>>,
                                 !.committed = s.committed \cup RowsOf(s.log)],
                       <<CommandComplete>>)
         ELSE IF s.tx = InFailedTransaction
           THEN Answer(RolledBack(s), <<CommandComplete>>)
         ELSE Answer(s, <<BE("NoticeResponse", ""), CommandComplete>>)
  ELSE IF c.k = "ROLLBACK"
    THEN IF s.tx = NotInTransaction
           THEN Answer(s, <<BE("NoticeResponse", ""), CommandComplete>>)
           ELSE Answer(RolledBack(s), <<CommandComplete>>)
  ELSE IF c.k = "SAVEPOINT"
    THEN IF s.tx = InTransaction
           THEN Answer([s EXCEPT !.log = Append(s.log, Savepoint(c.n))],
                       <<CommandComplete>>)
           ELSE AnswerError(s, <<>>)
  ELSE IF c.k = "ROLLBACK TO"
    THEN IF s.tx # NotInTransaction /\ SavepointPos(s.log, c.n) > 0
           THEN Answer([s EXCEPT !.tx = InTransaction,
                                 !.log = SubSeq(s.log, 1, SavepointPos(s.log, c.n))],
                       <<CommandComplete>>)
           ELSE AnswerError(s, <<>>)
  ELSE IF c.k = "INSERT"
    THEN IF s.tx = NotInTransaction
           THEN Answer([s EXCEPT !.committed = s.committed \cup {c.n}],
                       <<CommandComplete>>)
           ELSE Answer([s EXCEPT !.log = Append(s.log, Row(c.n))],
                       <<CommandComplete>>)
  ELSE IF c.k = "SELECT"
    THEN Answer(s, <<BE("RowDescription", "")>> \o DataRows \o <<CommandComplete>>)
  \* SELECT 1 AS _1; SELECT 'two' AS _two;
  ELSE IF c.k = "SELECT; SELECT"
    THEN Answer(s, <<BE("RowDescription", "")>> \o DataRows \o <<CommandComplete>>
                     \o <<BE("RowDescription", "")>> \o DataRows
                     \o <<CommandComplete>>)
  \* an empty query string
  ELSE IF c.k = ""
    THEN Answer(s, <<BE("EmptyQueryResponse", "")>>)
  \* COPY t FROM STDIN: the backend enters copy-in mode
  ELSE IF c.k = "COPY"
    THEN [srv |-> [s EXCEPT !.copy = TRUE], out |-> <<BE("CopyInResponse", "")>>]
  \* SELECT 1 / (1 - x) FROM generate_series(0, 1) x: the error is raised
  \* after the first row has been sent
  ELSE IF c.k = "ROW; FAIL"
    THEN AnswerError(s, <<BE("RowDescription", ""), BE("DataRow", "")>>)
  \* SELECT one_or_fail(2): the function raises an exception
  ELSE AnswerError(s, <<BE("RowDescription", "")>>)

\* the messages of the extended protocol; after an error the backend
\* discards messages until Sync
BackendExtended(s, m) ==
  IF m.code = "Sync"
    THEN Answer([s EXCEPT !.skip = FALSE], <<>>)
  ELSE IF s.skip
    THEN [srv |-> s, out |-> <<>>]
  ELSE IF m.code = "Parse"
    THEN IF s.tx = InFailedTransaction
           THEN [srv |-> [Failed(s) EXCEPT !.skip = TRUE],
                 out |-> <<BE("ErrorResponse", "")>>]
           ELSE [srv |-> [s EXCEPT !.stmt = m.cmd.k], out |-> <<BE("ParseComplete", "")>>]
  ELSE IF m.code = "Bind"
    THEN IF s.stmt = "" \/ s.tx = InFailedTransaction
           THEN [srv |-> [Failed(s) EXCEPT !.skip = TRUE],
                 out |-> <<BE("ErrorResponse", "")>>]
           ELSE [srv |-> [s EXCEPT !.portal = s.stmt], out |-> <<BE("BindComplete", "")>>]
  \* Describe of a portal: RowDescription, or NoData when the statement
  \* returns no rows (SET TimeZone = UTC)
  ELSE IF m.code = "Describe"
    THEN [srv |-> s,
          out |-> IF s.portal = "SET" THEN <<BE("NoData", "")>>
                                      ELSE <<BE("RowDescription", "")>>]
  ELSE IF m.code = "Execute"
    THEN [srv |-> s,
          out |-> IF s.portal = "SET" THEN <<CommandComplete>>
                                      ELSE DataRows \o <<CommandComplete>>]
  ELSE IF m.code = "CloseStatement"
    THEN [srv |-> [s EXCEPT !.stmt = ""], out |-> <<BE("CloseComplete", "")>>]
  ELSE [srv |-> s, out |-> <<>>]

\* copy-in mode: CopyData is taken, CopyDone ends the copy, CopyFail and
\* any message that is not a copy message abort it with an error
BackendCopy(s, m) ==
  IF m.code = "CopyData"
    THEN [srv |-> s, out |-> <<>>]
  ELSE IF m.code = "CopyDone"
    THEN Answer([s EXCEPT !.copy = FALSE], <<CommandComplete>>)
  ELSE IF m.code = "Sync"
    THEN [srv |-> s, out |-> <<>>]
  ELSE AnswerError([s EXCEPT !.copy = FALSE], <<>>)

Backend(s, m) ==
  IF s.copy THEN BackendCopy(s, m)
  ELSE IF m.code = "Query"
    THEN IF s.skip THEN [srv |-> s, out |-> <<>>] ELSE BackendQuery(s, m.cmd)
  ELSE IF m.code \in {"CopyData", "CopyDone", "CopyFail"}
    THEN [srv |-> s, out |-> <<>>]
  ELSE BackendExtended(s, m)

(***************************************************************************)
(* One call on the connection is computed on a record m: the fields of the *)
(* Conn, the socket (inbox, srv), the ResultSet res the call works on, the *)
(* messages the call has written (sent), the value it returns (ret) and    *)
(* the panic in flight (fail).                                             *)
(***************************************************************************)
NoStmt == 0
\* the fields of a result of this model's queries (SELECT 'abc')
Fields == 1
\* rs.fields is held as its length; rs.values as "none" (the nil slice),
\* "NULL" (values[0] == nil) or "value"
newResultSet ==
  [stmt |-> NoStmt, hasCurrentRow |-> FALSE, currentResultComplete |-> FALSE,
   allResultsComplete |-> FALSE, fields |-> 0, values |-> "none"]

Call(res) ==
  [state |-> conn.state, transactionStatus |-> conn.transactionStatus,
   nextSavepointId |-> conn.nextSavepointId, writer |-> conn.writer,
   onErrorDontRequireReadyForQuery |-> FALSE,
   inbox |-> inbox, srv |-> srv, res |-> res,
   sent |-> <<>>, ret |-> FALSE, fail |-> NoError, io |-> <<>>]

\* an argument or a local value is computed once: F is applied to the value
\* of v
Bind(v, F(_)) == CHOOSE r \in {F(x) : x \in {v}} : TRUE

Ok(m) == m.fail = NoError
Panic(m, x) == [m EXCEPT !.fail = x]

\* conn.writer.Flush(): the backend receives the messages of the writer's
\* buffer in order
RECURSIVE flush(_)
flush(m0) ==
  Bind(m0, LAMBDA m :
    IF m.writer = <<>> THEN m
    ELSE Bind(Backend(m.srv, Head(m.writer)), LAMBDA answer :
           flush([m EXCEPT !.sent = Append(m.sent, Head(m.writer)),
                           !.io = Append(m.io, Io("F", Head(m.writer))),
                           !.writer = Tail(m.writer),
                           !.srv = answer.srv,
                           !.inbox = m.inbox \o answer.out])))

\* the message is written to conn.writer and stays in its buffer
writeUnflushed(m0, msg) ==
  Bind(m0, LAMBDA m :
    IF ~Ok(m) THEN m
    ELSE IF m.state = StatusDisconnected THEN Panic(m, IoError)
    ELSE [m EXCEPT !.writer = Append(m.writer, msg)])

\* conn.write...; conn.flush(): the backend receives the message
write(m0, msg) ==
  Bind(m0, LAMBDA m :
    IF ~Ok(m) THEN m
    ELSE IF m.state = StatusDisconnected THEN Panic(m, IoError)
    ELSE IF m.writer # <<>> THEN flush(writeUnflushed(m, msg))
    ELSE Bind(Backend(m.srv, msg), LAMBDA answer :
           [m EXCEPT !.sent = Append(m.sent, msg),
                     !.io = Append(m.io, Io("F", msg)),
                     !.srv = answer.srv,
                     !.inbox = m.inbox \o answer.out]))

writeQuery(m, c) == write(m, FE("Query", c))
writeParse(m, c) == write(m, FE("Parse", c))
writeBind(m) == write(m, FE("Bind", NoCmd))
writeDescribe(m) == write(m, FE("Describe", NoCmd))
writeExecute(m) == write(m, FE("Execute", NoCmd))
writeSync(m) == write(m, FE("Sync", NoCmd))
writeClose(m, itemType) ==
  write(m, FE(IF itemType = "S" THEN "CloseStatement" ELSE "ClosePortal", NoCmd))
writeTerminate(m) == write(m, FE("Terminate", NoCmd))

(***************************************************************************)
(* The reader.                                                             *)
(***************************************************************************)
readCommandComplete(m, hasRes) ==
  IF hasRes THEN [m EXCEPT !.res.currentResultComplete = TRUE] ELSE m

\* res.initializeResult()
readRowDescription(m) ==
  [m EXCEPT !.res.fields = Fields, !.res.values = "NULL"]

initializeResult(m) ==
  [readRowDescription(m) EXCEPT !.res.currentResultComplete = FALSE,
                                !.res.hasCurrentRow = FALSE]

\* res.readRow()
readDataRow(m) == [m EXCEPT !.res.values = "value"]

readRow(m) == [readDataRow(m) EXCEPT !.res.hasCurrentRow = TRUE]

readReadyForQuery(m, hasRes) ==
  [(IF hasRes THEN [m EXCEPT !.res.allResultsComplete = TRUE] ELSE m)
     EXCEPT !.state = StatusReady]

\* mutant: the status byte is read and dropped
updateTransactionStatusDropped(m, status) == m

\* ReadyForQuery updates transactionStatus from its status byte
updateTransactionStatus(m, status) == [m EXCEPT !.transactionStatus = status]

\* CopyInResponse moves the connection to Copy
readCopyInResponse(m) == [m EXCEPT !.state = StatusCopy]

\* a method of a nil *ResultSet panics when it reads rs.conn; the body of the
\* message is still in the reader's buffer, and is skipped byte by byte
unreadBody(m, msg) ==
  [m EXCEPT !.inbox = <<BE("unread", "")>> \o m.inbox, !.fail = NilDereference]

RECURSIVE readBackendMessages(_, _)

\* mutant: the error is raised without waiting for ReadyForQuery
readErrorResponseAtOnce(m1) == Panic(m1, PgsqlError)

\* readErrorOrNoticeResponse(true): before panicking with the error, wait for
\* a ReadyForQuery unless onErrorDontRequireReadyForQuery
readErrorResponse(m1) ==
  Bind(IF ~m1.onErrorDontRequireReadyForQuery
         THEN readBackendMessages(m1, FALSE)
         ELSE m1,
       LAMBDA m2 : IF Ok(m2) THEN Panic(m2, PgsqlError) ELSE m2)

readBackendMessages(m0, hasRes) ==
  Bind(m0, LAMBDA m :
    IF ~Ok(m) THEN m
    ELSE IF m.state = StatusDisconnected THEN Panic(m, IoError)
    ELSE IF m.inbox = <<>> THEN Panic(m, NeverReturns)
    ELSE
      LET msg == Head(m.inbox)
          m1 == [m EXCEPT !.inbox = Tail(m.inbox),
                          !.io = Append(m.io, Io("B", msg))]
      IN IF msg.code \in {"BindComplete", "ParseComplete"} THEN m1
         ELSE IF msg.code = "CommandComplete" THEN readCommandComplete(m1, hasRes)
         ELSE IF msg.code = "DataRow"
           THEN IF hasRes THEN readRow(m1) ELSE unreadBody(m1, msg)
         ELSE IF msg.code = "RowDescription"
           THEN IF hasRes THEN initializeResult(m1) ELSE unreadBody(m1, msg)
         ELSE IF msg.code = "ReadyForQuery"
           THEN updateTransactionStatus(readReadyForQuery(m1, hasRes), msg.status)
         ELSE IF msg.code = "ErrorResponse" THEN readErrorResponse(m1)
         ELSE IF msg.code = "CopyInResponse" THEN readCopyInResponse(m1)
         ELSE readBackendMessages(m1, hasRes))

(***************************************************************************)
(* The state objects: readyState implements the operations, every other    *)
(* state inherits abstractState's.                                         *)
(***************************************************************************)
abstractState(m0) ==
  Bind(m0, LAMBDA m : IF Ok(m) THEN Panic(m, invalidOpForStateMsg) ELSE m)

readyState_query(m, c) ==
  Bind(readBackendMessages(writeQuery(m, c), TRUE), LAMBDA m1 :
    IF Ok(m1) THEN [m1 EXCEPT !.state = StatusProcessingQuery] ELSE m1)

readyState_prepare(m, c) ==
  LET m1 == writeParse(m, c)
      m2 == readBackendMessages(
              [m1 EXCEPT !.onErrorDontRequireReadyForQuery = TRUE], FALSE)
  IN [m2 EXCEPT !.onErrorDontRequireReadyForQuery = FALSE]

readyState_execute(m) ==
  Bind(writeSync(writeExecute(
         readBackendMessages(writeDescribe(
           readBackendMessages(writeBind(m), TRUE)), TRUE))),
       LAMBDA m3 :
         IF Ok(m3) THEN [m3 EXCEPT !.state = StatusProcessingQuery] ELSE m3)

state_query(m0, c) ==
  Bind(m0, LAMBDA m :
    IF m.state = StatusReady THEN readyState_query(m, c) ELSE abstractState(m))
state_prepare(m0, c) ==
  Bind(m0, LAMBDA m :
    IF m.state = StatusReady THEN readyState_prepare(m, c) ELSE abstractState(m))
state_execute(m0) ==
  Bind(m0, LAMBDA m :
    IF m.state = StatusReady THEN readyState_execute(m) ELSE abstractState(m))

(***************************************************************************)
(* ResultSet                                                               *)
(***************************************************************************)
fetchNext(m0) ==
  Bind(m0, LAMBDA m :
    IF ~Ok(m) THEN m
    ELSE IF m.res.currentResultComplete THEN [m EXCEPT !.ret = FALSE]
    ELSE Bind(readBackendMessages(m, TRUE), LAMBDA m1 :
           IF Ok(m1) THEN [m1 EXCEPT !.ret = ~m1.res.currentResultComplete]
                     ELSE m1))

RECURSIVE eatCurrentResultRows(_)
eatCurrentResultRows(m) ==
  Bind(fetchNext(m), LAMBDA m1 :
    IF Ok(m1) /\ m1.ret THEN eatCurrentResultRows(m1) ELSE m1)

\* mutant: the rows left in the current result are not read first
nextResultKeepsRows(m) ==
  Bind(m, LAMBDA m1 :
    Bind(IF Ok(m1) /\ ~m1.res.allResultsComplete
           THEN readBackendMessages(m1, TRUE)
           ELSE m1,
         LAMBDA m2 :
           IF Ok(m2) THEN [m2 EXCEPT !.ret = ~m2.res.allResultsComplete]
                     ELSE m2))

nextResult(m) ==
  Bind(eatCurrentResultRows(m), LAMBDA m1 :
    Bind(IF Ok(m1) /\ ~m1.res.allResultsComplete
           THEN readBackendMessages(m1, TRUE)
           ELSE m1,
         LAMBDA m2 :
           IF Ok(m2) THEN [m2 EXCEPT !.ret = ~m2.res.allResultsComplete]
                     ELSE m2))

RECURSIVE eatAllResultRows(_)
eatAllResultRows(m) ==
  Bind(nextResult(m), LAMBDA m1 :
    IF Ok(m1) /\ m1.ret THEN eatAllResultRows(m1) ELSE m1)

\* the deferred writeClose('P', ...) runs also when eatAllResultRows panics
rs_close(m0) ==
  Bind(m0, LAMBDA m :
    IF ~Ok(m) THEN m
    ELSE Bind(eatAllResultRows(m), LAMBDA m1 :
           LET m2 == IF Ok(m1) THEN [m1 EXCEPT !.state = StatusReady] ELSE m1
           IN IF m.res.stmt = NoStmt THEN m2
              ELSE Bind(writeClose([m2 EXCEPT !.fail = NoError], "P"),
                        LAMBDA m3 :
                          IF Ok(m3) THEN [m3 EXCEPT !.fail = m2.fail] ELSE m3)))

\* mutant: the ResultSet is not marked completed
setCompletedNever(m0) == m0

setCompletedOnPgsqlError(m0) ==
  Bind(m0, LAMBDA m :
    IF m.fail = PgsqlError /\ ~m.res.hasCurrentRow
      THEN [m EXCEPT !.res.currentResultComplete = TRUE,
                     !.res.allResultsComplete = TRUE]
      ELSE m)

\* the field accessors, asked for field 0
IndexOutOfRange == "index out of range"
InvalidRow == "invalid row"
WrongArgumentCount == "wrong argument count"

isNull(m0) ==
  Bind(m0, LAMBDA m :
    IF ~Ok(m) THEN m
    ELSE IF ~m.res.hasCurrentRow THEN Panic(m, InvalidRow)
    ELSE IF m.res.values = "none" THEN Panic(m, IndexOutOfRange)
    ELSE [m EXCEPT !.ret = (m.res.values = "NULL")])

\* rs.bool, rs.int, rs.string, ...: every typed accessor calls rs.isNull first
typed(m) == isNull(m)

any(m0) ==
  Bind(m0, LAMBDA m :
    IF ~Ok(m) THEN m
    ELSE IF m.res.values = "none" THEN Panic(m, IndexOutOfRange)
    ELSE IF m.res.values = "NULL" THEN [m EXCEPT !.ret = TRUE]
    ELSE typed(m))

\* rs.scan(args...): nargs arguments, pointers to interface{} (kind "any")
\* or to a typed value
scan(m0, nargs, kind) ==
  Bind(m0, LAMBDA m :
    IF ~Ok(m) THEN m
    ELSE IF nargs # m.res.fields THEN Panic(m, WrongArgumentCount)
    ELSE IF nargs = 0 THEN m
    ELSE IF kind = "any" THEN any(m) ELSE typed(m))

scanNext(m, nargs, kind) ==
  Bind(fetchNext(m), LAMBDA m1 :
    IF Ok(m1) /\ m1.ret
      THEN [scan(m1, nargs, kind) EXCEPT !.ret = TRUE]
      ELSE m1)

(***************************************************************************)
(* Conn and Statement, below withRecover                                   *)
(***************************************************************************)
\* conn.query(command) without parameters
conn_query(m, c) == state_query([m EXCEPT !.res = newResultSet], c)

conn_execute(m, c) == rs_close(conn_query(m, c))

conn_prepare(m, c) == state_prepare(m, c)

conn_scan(m, c, nargs) == scanNext(conn_query(m, c), nargs, "typed")

\* the function Conn.Scan runs under withRecover: rs.close() is not deferred
conn_Scan(m, c, nargs) ==
  Bind(conn_scan(m, c, nargs), LAMBDA m1 :
    IF Ok(m1) THEN [rs_close(m1) EXCEPT !.ret = m1.ret] ELSE m1)

\* conn.copyFrom(command, r): r yields chunks blocks of data and then io.EOF
\* or an error
WrongState == "wrong state, expected: StatusCopy"
SourceError == "source read error"

RECURSIVE copyData(_, _)
copyData(m, chunks) ==
  IF chunks = 0 THEN m
  ELSE copyData(write(m, FE("CopyData", NoCmd)), chunks - 1)

copyDone(m) == write(m, FE("CopyDone", NoCmd))

\* CopyFail is written to conn.writer; there is no conn.flush() before the
\* panic
copyFail(m) == Panic(writeUnflushed(m, FE("CopyFail", NoCmd)), SourceError)

copyFrom(m0, c, chunks, end) ==
  Bind(readBackendMessages(writeQuery(m0, c), FALSE), LAMBDA m1 :
    IF ~Ok(m1) THEN m1
    ELSE IF m1.state # StatusCopy THEN Panic(m1, WrongState)
    ELSE Bind(copyData(m1, chunks), LAMBDA m2 :
           IF ~Ok(m2) THEN m2
           ELSE IF end = "error" THEN copyFail(m2)
           ELSE rs_close(readBackendMessages(
                           [copyDone(m2) EXCEPT !.res = newResultSet], TRUE))))

conn_Close(m0) ==
  Bind(m0, LAMBDA m :
    IF m.state = StatusDisconnected
      THEN Panic(m, "connection already closed")
      ELSE Bind(writeTerminate(m), LAMBDA m1 :
             IF Ok(m1) THEN [m1 EXCEPT !.state = StatusDisconnected] ELSE m1))

\* stmt.query() never sets r.stmt
stmt_query(m) == state_execute([m EXCEPT !.res = newResultSet])

stmt_execute(m) == rs_close(stmt_query(m))

stmt_close(m) == writeClose(m, "S")

(***************************************************************************)
(* The calls of the application on one connection.  Every public method    *)
(* runs under withRecover, which turns a panic into the returned error.    *)
(***************************************************************************)
\* the goroutine is gone: its call waits forever, or a panic has left the
\* driver unrecovered
Hung == last.err = NeverReturns \/ last.escaped

\* the application makes up to MaxCalls calls
CanCall == ~Hung /\ calls < MaxCalls

Return(m, op, arg, i, body, old, err, escaped) ==
  /\ conn' = [state |-> m.state, transactionStatus |-> m.transactionStatus,
              nextSavepointId |-> m.nextSavepointId, writer |-> m.writer]
  /\ inbox' = m.inbox
  /\ srv' = m.srv
  /\ calls' = calls + 1
  /\ last' = [op |-> op, state0 |-> conn.state,
              tx0 |-> conn.transactionStatus, arg |-> arg, rs |-> i,
              body |-> body, old |-> old, sent |-> m.sent, err |-> err,
              escaped |-> escaped, ret |-> m.ret, io |-> m.io,
              lastIo |-> IF m.io = <<>> THEN last.lastIo ELSE m.io[Len(m.io)]]

withRecover(m, op, i) == Return(m, op, 0, i, "", "", m.fail, FALSE)

\* nothing of an earlier query is left on the connection
Clean == conn.state = StatusReady /\ inbox = <<>>

NoExc == [step |-> 0, rs |-> 0]

Query(c) ==
  /\ CanCall
  /\ Len(rss) < MaxResultSets
  /\ \E m \in {conn_query(Call(newResultSet), c)} :
      /\ withRecover(m, "Query", IF Ok(m) THEN Len(rss) + 1 ELSE 0)
      /\ rss' = IF Ok(m) THEN Append(rss, [f |-> m.res, closed |-> FALSE]) ELSE rss
      /\ exc' = IF c.k = "FAIL" /\ Ok(m) /\ Clean
                   /\ conn.transactionStatus = NotInTransaction
                  THEN [step |-> 1, rs |-> Len(rss) + 1]
                ELSE IF c.k = "SELECT" /\ Ok(m) /\ exc.step = 3
                  THEN [step |-> 4, rs |-> exc.rs]
                ELSE NoExc
      /\ UNCHANGED <<stmts, stack, work>>
      /\ UNCHANGED <<poolVars, prep>>

Execute(c) ==
  /\ CanCall
  /\ \E m \in {conn_execute(Call(newResultSet), c)} :
      /\ withRecover(m, "Execute", 0)
      /\ work' = IF c.k = "INSERT" THEN work + 1 ELSE work
      /\ exc' = NoExc
      /\ UNCHANGED <<rss, stmts, stack>>
      /\ UNCHANGED <<poolVars, prep>>

\* FetchNext, and ScanNext, which scans the row fetched into its arguments
FetchNext(i) ==
  /\ CanCall
  /\ i \in 1..Len(rss)
  /\ \E m \in {setCompletedOnPgsqlError(fetchNext(Call(rss[i].f)))} :
      /\ withRecover(m, "FetchNext", i)
      /\ rss' = [rss EXCEPT ![i].f = m.res]
      /\ exc' = IF exc = [step |-> 1, rs |-> i] /\ m.fail = PgsqlError
                  THEN [step |-> 2, rs |-> i]
                  ELSE NoExc
      /\ UNCHANGED <<stmts, stack, work>>
      /\ UNCHANGED <<poolVars, prep>>

NextResult(i) ==
  /\ CanCall
  /\ i \in 1..Len(rss)
  /\ \E m \in {nextResult(Call(rss[i].f))} :
      /\ withRecover(m, "NextResult", i)
      /\ rss' = [rss EXCEPT ![i].f = m.res]
      /\ exc' = NoExc
      /\ UNCHANGED <<stmts, stack, work>>
      /\ UNCHANGED <<poolVars, prep>>

ResultSetClose(i) ==
  /\ CanCall
  /\ i \in 1..Len(rss)
  /\ \E m \in {rs_close(Call(rss[i].f))} :
      /\ withRecover(m, "ResultSet.Close", i)
      /\ rss' = [rss EXCEPT ![i] = [f |-> m.res, closed |-> rss[i].closed \/ Ok(m)]]
      /\ exc' = IF exc = [step |-> 2, rs |-> i] /\ Ok(m)
                  THEN [step |-> 3, rs |-> i]
                  ELSE NoExc
      /\ UNCHANGED <<stmts, stack, work>>
      /\ UNCHANGED <<poolVars, prep>>

ConnClose ==
  /\ CanCall
  /\ \E m \in {conn_Close(Call(newResultSet))} :
      /\ withRecover(m, "Conn.Close", 0)
      /\ exc' = NoExc
      /\ UNCHANGED <<rss, stmts, stack, work>>
      /\ UNCHANGED <<poolVars, prep>>

Prepare(c) ==
  /\ CanCall
  /\ Len(stmts) < MaxStmts
  /\ \E m \in {conn_prepare(Call(newResultSet), c)} :
      /\ withRecover(m, "Prepare", 0)
      /\ stmts' = IF Ok(m) THEN Append(stmts, [isClosed |-> FALSE]) ELSE stmts
      /\ exc' = NoExc
      /\ UNCHANGED <<rss, stack, work>>
      /\ UNCHANGED <<poolVars, prep>>

StatementQuery(st) ==
  /\ CanCall
  /\ st \in 1..Len(stmts)
  /\ Len(rss) < MaxResultSets
  /\ \E m \in {stmt_query(Call(newResultSet))} :
      /\ withRecover(m, "Statement.Query", IF Ok(m) THEN Len(rss) + 1 ELSE 0)
      /\ rss' = IF Ok(m) THEN Append(rss, [f |-> m.res, closed |-> FALSE]) ELSE rss
      /\ exc' = NoExc
      /\ UNCHANGED <<stmts, stack, work>>
      /\ UNCHANGED <<poolVars, prep>>

StatementExecute(st) ==
  /\ CanCall
  /\ st \in 1..Len(stmts)
  /\ \E m \in {stmt_execute(Call(newResultSet))} :
      /\ withRecover(m, "Statement.Execute", 0)
      /\ exc' = NoExc
      /\ UNCHANGED <<rss, stmts, stack, work>>
      /\ UNCHANGED <<poolVars, prep>>

StatementClose(st) ==
  /\ CanCall
  /\ st \in 1..Len(stmts)
  /\ \E m \in {stmt_close(Call(newResultSet))} :
      /\ withRecover(m, "Statement.Close", 0)
      /\ stmts' = [stmts EXCEPT ![st].isClosed = stmts[st].isClosed \/ Ok(m)]
      /\ exc' = NoExc
      /\ UNCHANGED <<rss, stack, work>>
      /\ UNCHANGED <<poolVars, prep>>

CopyFrom(chunks, end) ==
  /\ CanCall
  /\ \E m \in {copyFrom(Call(newResultSet), Cmd("COPY", 0), chunks, end)} :
      /\ Return(m, "CopyFrom", 0, 0, end, "", m.fail, FALSE)
      /\ exc' = NoExc
      /\ UNCHANGED <<rss, stmts, stack, work>>
      /\ UNCHANGED <<poolVars, prep>>

Scan(c, nargs) ==
  /\ CanCall
  /\ \E m \in {conn_Scan(Call(newResultSet), c, nargs)} :
      /\ withRecover(m, "Scan", 0)
      /\ exc' = NoExc
      /\ UNCHANGED <<rss, stmts, stack, work>>
      /\ UNCHANGED <<poolVars, prep>>

\* the accessors read the ResultSet only
Accessor(i, op, m) ==
  /\ withRecover(m, op, i)
  /\ exc' = NoExc
  /\ UNCHANGED <<rss, stmts, stack, work>>
  /\ UNCHANGED <<poolVars, prep>>

CanAccess(i) == CanCall /\ i \in 1..Len(rss)

IsNull(i) ==
  /\ CanAccess(i)
  /\ \E m \in {isNull(Call(rss[i].f))} : Accessor(i, "IsNull", m)
Typed(i) ==
  /\ CanAccess(i)
  /\ \E m \in {typed(Call(rss[i].f))} : Accessor(i, "Typed", m)
ResultSetAny(i) ==
  /\ CanAccess(i)
  /\ \E m \in {any(Call(rss[i].f))} : Accessor(i, "Any", m)
ResultSetScan(i, nargs, kind) ==
  /\ CanAccess(i)
  /\ \E m \in {scan(Call(rss[i].f), nargs, kind)} :
       Accessor(i, "ResultSet.Scan", m)

(***************************************************************************)
(* WithTransaction and WithSavepoint.  A call whose body f is running is a *)
(* frame of stack: [kind, old, sp], old the oldStatus the call saw.  The   *)
(* body is any sequence of calls on the connection; it returns nil or an   *)
(* error, or panics.                                                       *)
(***************************************************************************)
ErrorInTransaction == "error in transaction"
BodyError == "body returned an error"
BodyPanic == "body panicked"
BodyResults == {NoError, BodyError, BodyPanic}

Frame(kind, old, sp) == [kind |-> kind, old |-> old, sp |-> sp]
Top == stack[Len(stack)]
Pop == SubSeq(stack, 1, Len(stack) - 1)

\* the deferred function: x is the panic recovered or the error f returned
\* (NoError: none); a panic of the conn.execute in it is not recovered
deferred(m0, x, rollsBack, c) ==
  Bind(m0, LAMBDA m :
    IF x = NeverReturns
      THEN [m |-> m, err |-> NeverReturns, escaped |-> FALSE]
      ELSE LET m1 == [m EXCEPT !.fail = NoError]
               err == IF x = NoError /\ m1.transactionStatus = InFailedTransaction
                        THEN ErrorInTransaction
                        ELSE x
           IN Bind(IF err # NoError /\ rollsBack THEN conn_execute(m1, c) ELSE m1,
                   LAMBDA m2 :
                     [m |-> m2, err |-> IF Ok(m2) THEN err ELSE m2.fail,
                      escaped |-> m2.fail \notin {NoError, NeverReturns}]))

\* mutant: the deferred function rolls back whoever opened the transaction
rollsBackAlways(old) == TRUE

\* the deferred function's test: err != nil && oldStatus == NotInTransaction
rollsBack(old) == old = NotInTransaction

\* mutant: the failed transaction is not tested
failsAtOnceNever(old) == FALSE

\* if oldStatus == InFailedTransaction { return ...("error in transaction") }
failsAtOnce(old) == old = InFailedTransaction

\* WithTransaction up to the call of f
withTransactionEnter(op, isolation) ==
  LET old == conn.transactionStatus
      m0 == Call(newResultSet)
  IN IF failsAtOnce(old)
       THEN /\ Return(m0, op, isolation, 0, "", old, ErrorInTransaction, FALSE)
            /\ UNCHANGED stack
     ELSE \E m1 \in {IF old = NotInTransaction
                        THEN conn_execute(m0, Cmd("BEGIN", isolation))
                        ELSE m0} :
       IF Ok(m1)
         THEN /\ Return(m1, op, isolation, 0, "running", old, NoError, FALSE)
              /\ stack' = Append(stack, Frame("WithTransaction", old, 0))
         ELSE \E d \in {deferred(m1, m1.fail, rollsBack(old),
                                   Cmd("ROLLBACK", 0))} :
                /\ Return(d.m, op, isolation, 0, "", old, d.err, d.escaped)
                /\ UNCHANGED stack

WithTransactionEnter(isolation) ==
  /\ CanCall
  /\ withTransactionEnter("WithTransaction", isolation)
  /\ exc' = NoExc
  /\ UNCHANGED <<rss, stmts, work>>
  /\ UNCHANGED <<poolVars, prep>>

\* mutant: the test of oldStatus names the wrong status
commitsInsideOnly(result, old, status) ==
  result = NoError /\ old = InTransaction /\ status = InTransaction

\* panicIfErr(f()) has passed, and
\* oldStatus == NotInTransaction && conn.transactionStatus == InTransaction
commits(result, old, status) ==
  result = NoError /\ old = NotInTransaction /\ status = InTransaction

\* f has returned result, or panicked: the rest of WithTransaction
WithTransactionReturn(result) ==
  LET old == Top.old
      m0 == Call(newResultSet)
  IN /\ CanCall
     /\ stack # <<>>
     /\ Top.kind = "WithTransaction"
     /\ \E m1 \in {IF commits(result, old, m0.transactionStatus)
                       THEN conn_execute(m0, Cmd("COMMIT", 0))
                       ELSE m0} :
        \E d \in {deferred(m1, IF result = NoError THEN m1.fail ELSE result,
                            rollsBack(old), Cmd("ROLLBACK", 0))} :
          Return(d.m, "WithTransaction", 0, 0, result, old, d.err, d.escaped)
     /\ stack' = Pop
     /\ exc' = NoExc
     /\ UNCHANGED <<rss, stmts, work>>
     /\ UNCHANGED <<poolVars, prep>>

\* WithSavepoint up to the call of f
WithSavepointEnter(isolation) ==
  LET old == conn.transactionStatus
      sp == conn.nextSavepointId
      m0 == [Call(newResultSet) EXCEPT !.nextSavepointId = sp + 1]
  IN /\ CanCall
     /\ IF old # InTransaction
          THEN withTransactionEnter("WithSavepoint", isolation)
          ELSE \E m1 \in {conn_execute(m0, Cmd("SAVEPOINT", sp))} :
            IF Ok(m1)
              THEN /\ Return(m1, "WithSavepoint", sp, 0, "running", old,
                             NoError, FALSE)
                   /\ stack' = Append(stack, Frame("WithSavepoint", old, sp))
              ELSE \E d \in {deferred(m1, m1.fail, TRUE,
                                        Cmd("ROLLBACK TO", sp))} :
                     /\ Return(d.m, "WithSavepoint", sp, 0, "", old, d.err,
                               d.escaped)
                     /\ UNCHANGED stack
     /\ exc' = NoExc
     /\ UNCHANGED <<rss, stmts, work>>
     /\ UNCHANGED <<poolVars, prep>>

\* f has returned result, or panicked: the rest of WithSavepoint
WithSavepointReturn(result) ==
     /\ CanCall
     /\ stack # <<>>
     /\ Top.kind = "WithSavepoint"
     /\ \E d \in {deferred(Call(newResultSet), result, TRUE,
                            Cmd("ROLLBACK TO", Top.sp))} :
          Return(d.m, "WithSavepoint", Top.sp, 0, result, Top.old, d.err,
                 d.escaped)
     /\ stack' = Pop
     /\ exc' = NoExc
     /\ UNCHANGED <<rss, stmts, work>>
     /\ UNCHANGED <<poolVars, prep>>

(***************************************************************************)
(* The application on one connection.                                      *)
(***************************************************************************)
IsolationLevels == {ReadCommittedIsolation, SerializableIsolation}

CallQuery == \E k \in {"SELECT", "SELECT; SELECT", "FAIL", ""} : Query(Cmd(k, 0))
CallExecute == Execute(Cmd("INSERT", work)) \/ Execute(Cmd("FAIL", 0))
CallFetchNext == \E i \in 1..MaxResultSets : FetchNext(i)
CallNextResult == \E i \in 1..MaxResultSets : NextResult(i)
CallResultSetClose == \E i \in 1..MaxResultSets : ResultSetClose(i)
CallPrepare == \E k \in {"SELECT", "SET"} : Prepare(Cmd(k, 0))
CallStatementQuery == \E st \in 1..MaxStmts : StatementQuery(st)
CallStatementExecute == \E st \in 1..MaxStmts : StatementExecute(st)
CallStatementClose == \E st \in 1..MaxStmts : StatementClose(st)
ArgCounts == {Fields, Fields + 1}
CallScan ==
  \/ \E nargs \in ArgCounts : Scan(Cmd("SELECT", 0), nargs)
  \/ Scan(Cmd("FAIL", 0), Fields)
CallAccessor ==
  \E i \in 1..MaxResultSets :
    \/ IsNull(i)
    \/ Typed(i)
    \/ ResultSetAny(i)
    \/ \E nargs \in ArgCounts, kind \in {"typed", "any"} :
         ResultSetScan(i, nargs, kind)
CallWithTransaction == \E isolation \in IsolationLevels : WithTransactionEnter(isolation)
ReturnWithTransaction == \E result \in BodyResults : WithTransactionReturn(result)
CallWithSavepoint == \E isolation \in IsolationLevels : WithSavepointEnter(isolation)
ReturnWithSavepoint == \E result \in BodyResults : WithSavepointReturn(result)

ConnNext ==
  \/ CallQuery
  \/ CallExecute
  \/ CallFetchNext
  \/ CallNextResult
  \/ CallResultSetClose
  \/ ConnClose
  \/ CallPrepare
  \/ CallStatementQuery
  \/ CallStatementExecute
  \/ CallStatementClose
  \/ CallScan
  \/ CallAccessor
  \/ CallWithTransaction
  \/ ReturnWithTransaction
  \/ CallWithSavepoint
  \/ ReturnWithSavepoint

SpecConn == Init /\ [][ConnNext]_vars

\* the connection of an application that copies, queries and executes; one
\* of its queries fails after the first row
CallQueryRowThenError == Query(Cmd("ROW; FAIL", 0))
CallCopyFrom == \E chunks \in 0..MaxChunks, end \in {"EOF", "error"} : CopyFrom(chunks, end)

CopyNext ==
  \/ CallCopyFrom
  \/ CallQuery
  \/ CallQueryRowThenError
  \/ CallExecute
  \/ CallFetchNext
  \/ CallNextResult
  \/ CallResultSetClose
  \/ ConnClose

SpecCopy == Init /\ [][CopyNext]_vars

(***************************************************************************)
(* newStatement: the command text of a prepared statement.  A string is a  *)
(* sequence of characters; an index pair of the regexp package is          *)
(* [start, end], counted from 0, end exclusive, as in Go.                  *)
(***************************************************************************)
\* the characters of the commands examined: two of the delimiters of
\* paramRegExp, the parameter prefixes, two letters and the quote
Chars == {" ", "|", "@", ":", "a", "b", "'"}

\* [\- |\n\r\t,)(;=+/<>]
Delimiters == {"-", " ", "|", "\n", "\r", "\t", ",", ")", "(", ";", "=", "+",
               "/", "<", ">"}
\* [:|@]
Prefixes == {":", "|", "@"}

\* s[a:b] of Go
Slice(s, a, b) == SubSeq(s, a + 1, b)

\* the end of the match of paramRegExp that starts at i, or -1
paramMatchEnd(s, i, name) ==
  LET n == Len(name)
  IN IF /\ i + n + 2 <= Len(s)
        /\ s[i + 1] \in Delimiters
        /\ s[i + 2] \in Prefixes
        /\ Slice(s, i + 2, i + 2 + n) = name
       THEN IF i + n + 2 < Len(s) /\ s[i + n + 3] \in Delimiters
              THEN i + n + 3
            ELSE IF i + n + 2 = Len(s) THEN Len(s)
            ELSE -1
       ELSE -1

\* paramRegExp.FindAllStringIndex(s, -1), searching from index from: the
\* leftmost match, then the matches after its end
RECURSIVE paramRegExp(_, _, _)
paramRegExp(s, from, name) ==
  IF from >= Len(s) THEN <<>>
  ELSE IF paramMatchEnd(s, from, name) >= 0
    THEN <<[start |-> from, end |-> paramMatchEnd(s, from, name)]>>
           \o paramRegExp(s, paramMatchEnd(s, from, name), name)
  ELSE paramRegExp(s, from + 1, name)

\* the index of the first quote of s at or after from, or -1
RECURSIVE nextQuote(_, _)
nextQuote(s, from) ==
  IF from >= Len(s) THEN -1
  ELSE IF s[from + 1] = "'" THEN from
  ELSE nextQuote(s, from + 1)

\* quoteRegExp.FindAllStringIndex(s, -1), searching from index from:
\* ['][^']*[']
RECURSIVE quoteRegExp(_, _)
quoteRegExp(s, from) ==
  IF nextQuote(s, from) < 0 \/ nextQuote(s, nextQuote(s, from) + 1) < 0
    THEN <<>>
    ELSE <<[start |-> nextQuote(s, from),
            end |-> nextQuote(s, nextQuote(s, from) + 1) + 1]>>
           \o quoteRegExp(s, nextQuote(s, nextQuote(s, from) + 1) + 1)

\* the loop over matchIndexPairs: what it appends to buf
RECURSIVE writeMatches(_, _, _, _)
writeMatches(s, new, pairs, prevMatchEnd) ==
  IF pairs = <<>> THEN <<>>
  ELSE Slice(s, prevMatchEnd - 1, Head(pairs).start + 1) \o <<new>>
         \o writeMatches(s, new, Tail(pairs), Head(pairs).end)

\* prevMatchEnd after the loop
lastMatchEnd(pairs) == IF pairs = <<>> THEN 1 ELSE pairs[Len(pairs)].end

\* what replaceParameterNameInSubstring appends to buf; name is old[1:]
replaceParameterNameInSubstring(s, name, new) ==
  LET matchIndexPairs == paramRegExp(s, 0, name)
      prevMatchEnd == lastMatchEnd(matchIndexPairs)
  IN IF prevMatchEnd > 1
       THEN writeMatches(s, new, matchIndexPairs, 1)
              \o Slice(s, prevMatchEnd - 1, Len(s))
       ELSE writeMatches(s, new, matchIndexPairs, 1) \o s

\* the loop over quoteIndexPairs: what it appends to buf
RECURSIVE writeQuotes(_, _, _, _, _)
writeQuotes(command, name, new, pairs, prevQuoteEnd) ==
  IF pairs = <<>> THEN <<>>
  ELSE replaceParameterNameInSubstring(
         Slice(command, prevQuoteEnd, Head(pairs).start), name, new)
         \o Slice(command, Head(pairs).start, Head(pairs).end)
         \o writeQuotes(command, name, new, Tail(pairs), Head(pairs).end)

lastQuoteEnd(pairs) == IF pairs = <<>> THEN 0 ELSE pairs[Len(pairs)].end

replaceParameterName(command, old, new) ==
  LET name == Tail(old)
      quoteIndexPairs == quoteRegExp(command, 0)
      buf == writeQuotes(command, name, new, quoteIndexPairs, 0)
  IN IF Len(buf) > 0
       THEN buf \o replaceParameterNameInSubstring(
                     Slice(command, lastQuoteEnd(quoteIndexPairs), Len(command)),
                     name, new)
       ELSE replaceParameterNameInSubstring(command, name, new)

\* fmt.Sprintf("$%d%s", i+1, cast) with no custom type name: one token
Dollar(k) == IF k = 1 THEN "$1" ELSE IF k = 2 THEN "$2" ELSE "$3"

\* the loop of adjustCommand from parameter i on
RECURSIVE adjustCommandFrom(_, _, _)
adjustCommandFrom(command, params, i) ==
  IF i > Len(params) THEN command
  ELSE adjustCommandFrom(replaceParameterName(command, params[i].name, Dollar(i)),
                         params, i + 1)

adjustCommand(command, params) == adjustCommandFrom(command, params, 1)

AlreadyUsed == "parameter already used in another statement"

\* the loop over params of newStatement: param.stmt is set by the loop
\* itself, so a *Parameter that occurs twice in params panics
paramsError(params) ==
  IF \E i, j \in 1..Len(params) : i < j /\ params[i].obj = params[j].obj
    THEN AlreadyUsed
    ELSE "nil"

newStatement(command, params) ==
  IF paramsError(params) # "nil"
    THEN [command |-> command, params |-> params, actualCommand |-> <<>>,
          err |-> paramsError(params), done |-> TRUE]
    ELSE [command |-> command, params |-> params,
          actualCommand |-> adjustCommand(command, params),
          err |-> "nil", done |-> TRUE]

\* the sequences over S of length up to n
SeqsUpTo(S, n) == UNION {[1..k -> S] : k \in 0..n}

\* parameter names: the prefix and the name proper
ParamNames == {<<"@", "a">>, <<"@", "b">>}
\* a *Parameter: its name and which object it is
Params == [name : ParamNames, obj : 1..MaxParams]

StmtInit ==
  \E command \in SeqsUpTo(Chars, MaxLen), params \in SeqsUpTo(Params, MaxParams) :
    prep = [NoPrep EXCEPT !.command = command, !.params = params]

InitStmt == PoolInit /\ ConnInit /\ StmtInit

NewStatement ==
  /\ ~prep.done
  /\ prep' = newStatement(prep.command, prep.params)
  /\ UNCHANGED <<poolVars, connVars>>

StmtNext == NewStatement

SpecStmt == InitStmt /\ [][StmtNext]_vars

(***************************************************************************)
(* Properties of the connection.                                           *)
(***************************************************************************)
\* the operations legal in each state
LegalOps(state) ==
  IF state = StatusReady
    THEN {"Query", "Execute", "Prepare", "Statement.Query", "Statement.Execute",
          "Statement.Close", "Conn.Close"}
  ELSE IF state = StatusProcessingQuery
    THEN {"FetchNext", "NextResult", "ResultSet.Close"}
  ELSE {}

StateOps == LegalOps(StatusReady) \cup LegalOps(StatusProcessingQuery)

\* C5: an operation called in a state in which it is not legal fails with the
\* invalid-operation-for-this-state error and writes nothing to the wire
C5_IllegalOperationFails ==
  (last.op \in StateOps /\ last.op \notin LegalOps(last.state0)) =>
    (last.err = invalidOpForStateMsg /\ last.sent = <<>>)

\* the calls that send a query or a command
ServedOps ==
  {"Query", "Execute", "Prepare", "Statement.Query", "Statement.Execute"}

\* C6: a query or command is served only if every ResultSet that was returned
\* before is closed; checked in the form that also lets pass a ResultSet read
\* to the end of its results (ReadyForQuery)
C6_OneOutstandingResultSet ==
  (last.op \in ServedOps /\ last.err = NoError) =>
    \A i \in 1..Len(rss) :
      i # last.rs => (rss[i].closed \/ rss[i].f.allResultsComplete)

\* C7: a query raises a backend error (outside a transaction block, nothing
\* left on the connection from earlier queries): the first FetchNext or
\* ScanNext returns the error, the Close that follows returns nil and leaves
\* the connection Ready, and the query that follows is served and answered
C7_ExceptionThenCloseThenQuery ==
  [][/\ (exc.step = 1 /\ FetchNext(exc.rs)) => last'.err = PgsqlError
     /\ (exc.step = 2 /\ ResultSetClose(exc.rs)) =>
          (last'.err = NoError /\ conn'.state = StatusReady /\ inbox' = <<>>)
     /\ (exc.step = 3 /\ Query(Cmd("SELECT", 0))) =>
          (/\ last'.err = NoError
           /\ conn'.state = StatusProcessingQuery
           /\ inbox' = DataRows \o <<CommandComplete, ReadyForQuery(NotInTransaction)>>)
    ]_vars

C7_Witness ==
  exc.step = 4 /\ last.op = "Query" /\ last.err = NoError /\ rss[exc.rs].closed

\* the call sent the SQL command k
Sent(k) ==
  \E j \in 1..Len(last.sent) :
    last.sent[j].code = "Query" /\ last.sent[j].cmd.k = k

\* WithTransaction has returned (or panicked) after its body
TransactionReturned == last.op = "WithTransaction" /\ last.body \in BodyResults

\* C8: a WithTransaction that opened the transaction and whose body returned
\* an error, panicked or left the connection InFailedTransaction sends
\* ROLLBACK and no COMMIT and returns an error; ROLLBACK is sent only by the
\* call that opened the transaction (the connection not yet closed)
C8_FailedBodyRollsBack ==
  (TransactionReturned /\ last.state0 # StatusDisconnected) =>
    /\ (last.old = NotInTransaction
          /\ (last.body # NoError \/ last.tx0 = InFailedTransaction)) =>
         (Sent("ROLLBACK") /\ ~Sent("COMMIT") /\ last.err # NoError
            /\ ~last.escaped)
    /\ Sent("ROLLBACK") => last.old = NotInTransaction

C13_NoPanicEscapes == ~last.escaped

\* the usage errors the calls of this model raise
UsageErrors == {invalidOpForStateMsg, WrongArgumentCount}

\* C14: a call that fails with a usage error leaves the connection in the
\* state (Ready, ProcessingQuery, ...) and transaction status it was called in
C14_UsageErrorKeepsState ==
  (last.err \in UsageErrors /\ ~last.escaped) =>
    (conn.state = last.state0 /\ conn.transactionStatus = last.tx0)

RefillFails ==
  \E connected \in 0..MaxPoolSize :
    /\ TcBody(connected)
    /\ connected < RefillTries(p.n - Expired(p.conns, clock, p.timeout), p.min)

C16_IdleWithinCount == p.n >= Len(p.conns)

\* a connection created by Acquire beyond min has been released: every
\* created connection is idle
C16_Witness ==
  created /\ ~p.closed /\ p.n > p.min /\ Len(p.conns) = p.n

\* the workers that hold a connection
Holders == {w \in Workers : Holding(w)}

\* C17: Close on an open pool closes and removes every idle connection and
\* marks the pool closed; it returns an error exactly when connections are
\* still held, n then being their number, and nil otherwise
C17_CloseClosesIdleAndReports ==
  [][(Close /\ ~p.closed) =>
       (/\ p'.closed /\ p'.conns = <<>>
        /\ IdleConns \subseteq closedConns'
        /\ p'.n = Cardinality(Holders)
        /\ closeRet' = IF Holders # {} THEN "connections in use" ELSE "nil")
    ]_vars

\* Close has returned the error while a worker holds a connection and
\* idle connections were closed
C17_Witness ==
  /\ p.closed /\ closeRet = "connections in use" /\ Holders # {}
  /\ closedConns # {} /\ p.n = Cardinality(Holders)

\* the messages after the leading DataRows of box
RECURSIVE SkipRows(_)
SkipRows(box) ==
  IF box # <<>> /\ Head(box).code = "DataRow" THEN SkipRows(Tail(box)) ELSE box

\* what follows the current result of ResultSet i among the unread messages
\* (<<>>: the unread messages do not hold the rest of a result)
AfterCurrent(i) ==
  IF rss[i].f.currentResultComplete THEN inbox
  ELSE IF SkipRows(inbox) # <<>> /\ Head(SkipRows(inbox)).code = "CommandComplete"
    THEN Tail(SkipRows(inbox))
  ELSE <<>>

NextIs(box, code) == box # <<>> /\ Head(box).code = code

\* the ResultSet whose results the connection is delivering: the one made
\* last, as long as its results are not all read
Current(i) ==
  /\ conn.state = StatusProcessingQuery
  /\ i = Len(rss)
  /\ ~rss[i].f.allResultsComplete

\* C18: on the ResultSet of the query in progress, FetchNext returns true with
\* the next row and false once the rows of the current result are exhausted;
\* NextResult discards the unread rows of the current result and returns true
\* exactly when a further result follows, positioned before its first row, and
\* false after the last result
C18_FetchNextAndNextResult ==
  [][\A i \in 1..MaxResultSets :
       /\ (FetchNext(i) /\ Current(i)
             /\ ~rss[i].f.currentResultComplete /\ NextIs(inbox, "DataRow")) =>
            (/\ last'.err = NoError /\ last'.ret = TRUE
             /\ rss'[i].f.hasCurrentRow /\ inbox' = Tail(inbox))
       /\ (FetchNext(i) /\ Current(i)
             /\ (rss[i].f.currentResultComplete
                   \/ NextIs(inbox, "CommandComplete"))) =>
            (last'.err = NoError /\ last'.ret = FALSE)
       /\ (NextResult(i) /\ Current(i)
             /\ NextIs(AfterCurrent(i), "RowDescription")) =>
            (/\ last'.err = NoError /\ last'.ret = TRUE
             /\ inbox' = Tail(AfterCurrent(i))
             /\ ~rss'[i].f.hasCurrentRow /\ ~rss'[i].f.currentResultComplete
             /\ ~rss'[i].f.allResultsComplete)
       /\ (NextResult(i) /\ Current(i)
             /\ NextIs(AfterCurrent(i), "ReadyForQuery")) =>
            (/\ last'.err = NoError /\ last'.ret = FALSE
             /\ inbox' = Tail(AfterCurrent(i))
             /\ rss'[i].f.allResultsComplete /\ conn'.state = StatusReady)
    ]_vars

\* NextResult has discarded the unread rows of the first result and stands
\* before the first row of the second
C18_Witness ==
  /\ last.op = "NextResult" /\ last.err = NoError /\ last.ret = TRUE
  /\ calls = 2
  /\ inbox = DataRows \o <<CommandComplete, ReadyForQuery(NotInTransaction)>>
  /\ ~rss[last.rs].f.hasCurrentRow

\* C19: once allResultsComplete is set on a ResultSet, FetchNext and NextResult
\* on it return, with false, and the flag stays set
C19_CompleteReturnsFalse ==
  [][\A i \in 1..MaxResultSets :
       ((FetchNext(i) \/ NextResult(i)) /\ rss[i].f.allResultsComplete) =>
         (/\ last'.err # NeverReturns /\ last'.ret = FALSE
          /\ rss'[i].f.allResultsComplete)
    ]_vars

\* C20: a field accessor (IsNull, a typed accessor, Any, Scan) called on a
\* ResultSet whose hasCurrentRow flag is not set returns an error
C20_AccessorsNeedCurrentRow ==
  [][\A i \in 1..MaxResultSets :
       (/\ \/ IsNull(i)
           \/ Typed(i)
           \/ ResultSetAny(i)
           \/ \E nargs \in ArgCounts, kind \in {"typed", "any"} :
                ResultSetScan(i, nargs, kind)
        /\ ~rss[i].f.hasCurrentRow) =>
         last'.err # NoError
    ]_vars

\* the call leaves the connection, the unread messages, the backend and every
\* ResultSet and Statement as they were
NothingElseChanges ==
  /\ conn' = conn /\ inbox' = inbox /\ srv' = srv
  /\ rss' = rss /\ stmts' = stmts /\ last'.sent = <<>>

\* C21: Close called again on a closed Conn, Statement or ResultSet returns an
\* error and changes no other state
C21_SecondCloseFails ==
  [][/\ (ConnClose /\ conn.state = StatusDisconnected) =>
          (last'.err # NoError /\ NothingElseChanges)
     /\ \A st \in 1..MaxStmts :
          (StatementClose(st) /\ stmts[st].isClosed) =>
            (last'.err # NoError /\ NothingElseChanges)
     /\ \A i \in 1..MaxResultSets :
          (ResultSetClose(i) /\ rss[i].closed) =>
            (last'.err # NoError /\ NothingElseChanges)
    ]_vars

\* C22: Close on a pool that is already closed changes nothing of the pool
\* (n, the idle list, the closed flag), closes no connection and returns nil
C22_CloseOfClosedPoolIsNoop ==
  [][(Close /\ p.closed) =>
       (p' = p /\ closedConns' = closedConns /\ closeRet' = "nil")]_vars

\* Close has returned nil on a closed pool one of whose connections is still
\* held: the first Close reported that connection, this is a later one
C22_Witness ==
  /\ created /\ p.closed /\ closeRet = "nil"
  /\ p.n > 0
  /\ \E w \in Workers : wpc[w] = "holding"

\* an entry put into the idle list at atime has been idle for more than sec
\* seconds at now
IdleLongerThan(now, atime, sec) ==
  \/ now.s - atime.s > sec
  \/ now.s - atime.s = sec /\ now.ns > atime.ns

\* C23: a pass of the maintenance task closes an idle connection only when it
\* has been idle for more than idleTimeout seconds
C23_ClosedOnlyAfterIdleTimeout ==
  [][\A connected \in 0..MaxPoolSize :
       TcBody(connected) =>
         \A i \in 1..Len(p.conns) :
           (p.conns[i].conn \in closedConns' \ closedConns) =>
             IdleLongerThan(clock, p.conns[i].atime, p.timeout)
    ]_vars

\* the letters a name is made of, among Chars
Letters == {"a", "b"}

\* the index of the first quote of s after its first character, or 0
RECURSIVE closingQuote(_, _)
closingQuote(s, j) ==
  IF j > Len(s) THEN 0 ELSE IF s[j] = "'" THEN j ELSE closingQuote(s, j + 1)

\* s starts with an occurrence of the parameter: @name or :name, the name
\* not running on into further letters
StartsWithParam(s, name) ==
  /\ Len(s) >= 1 + Len(name)
  /\ s[1] \in {"@", ":"}
  /\ SubSeq(s, 2, 1 + Len(name)) = name
  /\ (Len(s) > 1 + Len(name) => s[2 + Len(name)] \notin Letters)

\* s with every occurrence of the parameter outside single-quoted literals
\* replaced by new, and everything else as it is
RECURSIVE Rewritten(_, _, _)
Rewritten(s, name, new) ==
  IF s = <<>> THEN <<>>
  ELSE IF s[1] = "'" /\ closingQuote(s, 2) > 0
    THEN SubSeq(s, 1, closingQuote(s, 2))
           \o Rewritten(SubSeq(s, closingQuote(s, 2) + 1, Len(s)), name, new)
  ELSE IF StartsWithParam(s, name)
    THEN <<new>> \o Rewritten(SubSeq(s, 2 + Len(name), Len(s)), name, new)
  ELSE <<s[1]>> \o Rewritten(Tail(s), name, new)

\* C24: for a statement with the one parameter @a, the command sent is the
\* command given with every @a and :a outside single-quoted literals replaced
\* by $1 and everything else unchanged
C24_ParametersRewritten ==
  (prep.done /\ prep.err = "nil" /\ Len(prep.params) = 1
     /\ prep.params[1].name = <<"@", "a">>) =>
    prep.actualCommand = Rewritten(prep.command, <<"a">>, "$1")

\* two of the parameters have the same name
NameCollision(params) ==
  \E i, j \in 1..Len(params) : i < j /\ params[i].name = params[j].name

\* C25: making a statement from parameters two of which have the same name
\* fails
C25_NameCollisionFails ==
  (prep.done /\ NameCollision(prep.params)) => prep.err # "nil"

\* the call read the backend message code as its j-th message
ReadAt(io, j, code) == io[j].dir = "B" /\ io[j].msg.code = code

\* after the ErrorResponse read at j the call has read on, writing nothing,
\* through a ReadyForQuery
DrainedAfter(io, j) ==
  \E k \in (j + 1)..Len(io) :
    /\ ReadAt(io, k, "ReadyForQuery")
    /\ \A l \in (j + 1)..k : io[l].dir = "B"

\* the calls that run one function under withRecover
RecoveredOps ==
  {"Query", "Execute", "FetchNext", "NextResult", "ResultSet.Close", "Scan",
   "Statement.Query", "Statement.Execute"}

\* C26: a call that reads an ErrorResponse without
\* onErrorDontRequireReadyForQuery (set by Prepare only) and returns has read
\* on through the following ReadyForQuery before the error is raised, and
\* the connection is Ready when the call returns that error
C26_ErrorDrainsToReadyForQuery ==
  (last.op # "Prepare" /\ last.err # NeverReturns) =>
    /\ \A j \in 1..Len(last.io) :
         ReadAt(last.io, j, "ErrorResponse") => DrainedAfter(last.io, j)
    /\ (last.op \in RecoveredOps /\ last.err = PgsqlError) =>
         conn.state = StatusReady

\* FetchNext has returned the error of an ErrorResponse, having read the
\* ReadyForQuery after it
C26_Witness ==
  /\ last.op = "FetchNext" /\ last.err = PgsqlError
  /\ last.state0 = StatusProcessingQuery
  /\ Len(last.io) = 2
  /\ ReadAt(last.io, 1, "ErrorResponse") /\ ReadAt(last.io, 2, "ReadyForQuery")
  /\ conn.state = StatusReady /\ inbox = <<>>

\* the positions at which the call read a ReadyForQuery
ReadyForQueryReads(io) == {j \in 1..Len(io) : ReadAt(io, j, "ReadyForQuery")}

\* the last of them
LastReadyForQuery(io) ==
  io[CHOOSE j \in ReadyForQueryReads(io) :
       \A k \in ReadyForQueryReads(io) : k <= j].msg

C28_ReadyAfterReadyForQuery ==
  (last.lastIo.dir = "B" /\ last.lastIo.msg.code = "ReadyForQuery") =>
    conn.state = StatusReady

\* the messages a call wrote and read are those of seq, in that order
IoIs(io, seq) ==
  /\ Len(io) = Len(seq)
  /\ \A j \in 1..Len(io) : io[j].dir = seq[j][1] /\ io[j].msg.code = seq[j][2]

\* the backend holds the prepared statement and will accept its Bind
CanBind == srv.stmt # "" /\ ~srv.skip /\ srv.tx # InFailedTransaction

\* C29: Statement.Query on a prepared statement, with the connection Ready
\* and nothing unread, writes Bind, reads BindComplete, writes Describe,
\* reads RowDescription or NoData, writes Execute and Sync, and returns with
\* the connection in ProcessingQuery
C29_ExecuteSequence ==
  [][\A st \in 1..MaxStmts :
       (StatementQuery(st) /\ Clean /\ CanBind) =>
         /\ last'.err = NoError
         /\ \E d \in {"RowDescription", "NoData"} :
              IoIs(last'.io, <<<<"F", "Bind">>, <<"B", "BindComplete">>,
                               <<"F", "Describe">>, <<"B", d>>,
                               <<"F", "Execute">>, <<"F", "Sync">>>>)
         /\ conn'.state = StatusProcessingQuery
    ]_vars

\* C30: when the backend answers the Bind of Statement.Query or
\* Statement.Execute with an ErrorResponse (the statement no longer exists on
\* the backend, or the transaction is aborted), the call returns that error;
\* it does not block in a read for a ReadyForQuery that the backend sends only
\* after a Sync the client has not written yet.
BindRefused == ~srv.skip /\ (srv.stmt = "" \/ srv.tx = InFailedTransaction)

C30_BindErrorIsReturned ==
  [][\A st \in 1..MaxStmts :
       ((StatementQuery(st) \/ StatementExecute(st)) /\ Clean /\ BindRefused) =>
         /\ last'.err # NeverReturns
         /\ last'.err = PgsqlError
    ]_vars

\* C31: when FetchNext has returned a backend error on a ResultSet that
\* already has a current row, the error's ReadyForQuery has been consumed;
\* the next FetchNext, NextResult or Close on that ResultSet returns, it does
\* not wait for further backend messages.
ErrorAfterRow(i) ==
  /\ last.op = "FetchNext" /\ last.rs = i /\ last.err = PgsqlError
  /\ rss[i].f.hasCurrentRow
  /\ ReadAt(last.io, Len(last.io), "ReadyForQuery")
  /\ inbox = <<>>

C31_ReturnsAfterErrorAfterRow ==
  [][\A i \in 1..MaxResultSets :
       ((FetchNext(i) \/ NextResult(i) \/ ResultSetClose(i)) /\ ErrorAfterRow(i))
         => last'.err # NeverReturns
    ]_vars

\* C32: closing the ResultSet that Statement.Query has just returned reads
\* the rest of the results up to ReadyForQuery, then writes a Close for the
\* statement's portal, and leaves the connection Ready.
FromStatement(i) ==
  /\ last.op = "Statement.Query" /\ last.err = NoError /\ last.rs = i
  /\ IoIs(last.io, <<<<"F", "Bind">>, <<"B", "BindComplete">>,
                     <<"F", "Describe">>, <<"B", "RowDescription">>,
                     <<"F", "Execute">>, <<"F", "Sync">>>>)

C32_CloseClosesPortal ==
  [][\A i \in 1..MaxResultSets :
       (ResultSetClose(i) /\ FromStatement(i)) =>
         /\ last'.err = NoError
         /\ conn'.state = StatusReady
         /\ Len(last'.io) >= 2
         /\ ReadAt(last'.io, Len(last'.io) - 1, "ReadyForQuery")
         /\ last'.io[Len(last'.io)] = Io("F", FE("ClosePortal", NoCmd))
    ]_vars

\* C33: Release on an open pool leaves the connection Ready with an empty
\* read buffer, appends it to the idle list with the current time, and wakes
\* the first waiter if there is one; n and the rest of the list are unchanged.
C33_ReleaseOnOpenPool ==
  [][\A w \in Workers :
       (Release(w) /\ ~p.closed) =>
         /\ pooled'[held[w]].state = StatusReady
         /\ pooled'[held[w]].reader = <<>>
         /\ p'.conns = Append(p.conns, poolConn(held[w], clock))
         /\ p'.n = p.n
         /\ waiters # <<>> =>
              /\ wpc'[Head(waiters)] = "woken"
              /\ waiters' = Tail(waiters)
         /\ \A c \in 1..MaxConnId : c # held[w] => pooled'[c] = pooled[c]
    ]_vars

\* a worker releases, on an open pool with a waiter, a connection it has
\* left in ProcessingQuery with messages in the read buffer
C33_Witness ==
  \E w \in Workers :
    /\ wpc[w] = "holding"
    /\ ~p.closed
    /\ waiters # <<>>
    /\ pooled[held[w]].state = StatusProcessingQuery
    /\ pooled[held[w]].reader # <<>>
    /\ ENABLED Release(w)

\* C34: the first message a holder's Query reads answers that holder's own
\* command, whatever the previous holder left unread.
C34_NoStaleMessages ==
  \A w \in Workers : got[w] # NoMsg => got[w].from = w

\* C35: a worker that waits in Acquire while the pool is closed eventually
\* returns from Acquire without a connection.
C35_BlockedAcquireReturnsOnClose ==
  \A w \in Workers :
    (Blocked(w) /\ p.closed) ~> (wpc[w] = "idle" /\ held[w] = NoConn)

\* C36: a connection released after the pool has been closed is closed and
\* taken out of n; once no worker holds a connection, n is 0 and every
\* connection the pool has created is closed.
C36_ReleaseAfterCloseClosesConn ==
  [][\A w \in Workers :
       (Release(w) /\ p.closed) =>
         /\ held[w] \in closedConns'
         /\ p'.n = p.n - 1
         /\ (\A v \in Workers : ~Holding(v)') =>
              (p'.n = 0 /\ \A c \in 1..(nextConnId - 1) : c \in closedConns')
    ]_vars

\* C37: once the pool is closed, no pass of timeoutCloser opens a
\* connection or changes n or the idle list.
C37_NoMaintenanceAfterClose ==
  [][(p.closed /\ (TcTest \/ RunTcBody \/ TcWake)) =>
        /\ p' = p
        /\ nextConnId' = nextConnId
        /\ closedConns' = closedConns
    ]_vars

\* C38: the idle list is ordered by idle age, the oldest timestamp at the
\* front.
C38_IdleListOrderedByAge ==
  \A i, j \in 1..Len(p.conns) :
    i < j => TimeLeq(p.conns[i].atime, p.conns[j].atime)

\* C39: after a FetchNext on the current result has returned, hasCurrentRow
\* is the value it returned (true after a row, false after the end of the
\* result); and hasCurrentRow is false when NextResult has moved to the next
\* result.
C39_HasCurrentRowFollowsFetchNext ==
  [][\A i \in 1..MaxResultSets :
       /\ (FetchNext(i) /\ Current(i) /\ last'.err = NoError) =>
            rss'[i].f.hasCurrentRow = last'.ret
       /\ (NextResult(i) /\ Current(i) /\ last'.err = NoError /\ last'.ret) =>
            ~rss'[i].f.hasCurrentRow
    ]_vars

\* C40: a CopyFrom called on a Ready connection with nothing unread enters
\* Copy on CopyInResponse, and a CopyFrom that has read CopyInResponse sends
\* CopyDone (source at EOF) or CopyFail (source error), reads up to
\* ReadyForQuery and leaves the connection Ready.
EnteredCopy(io) == \E j \in 1..Len(io) : ReadAt(io, j, "CopyInResponse")
Wrote(io, code) == \E j \in 1..Len(io) : io[j].dir = "F" /\ io[j].msg.code = code

C40_CopyFromLeavesCopy ==
  [][\A chunks \in 0..MaxChunks, end \in {"EOF", "error"} :
       (CopyFrom(chunks, end) /\ Clean /\ conn.writer = <<>> /\ ~srv.copy
          /\ srv.tx # InFailedTransaction) =>
         /\ EnteredCopy(last'.io)
         /\ Wrote(last'.io, IF end = "EOF" THEN "CopyDone" ELSE "CopyFail")
         /\ ReadAt(last'.io, Len(last'.io), "ReadyForQuery")
         /\ conn'.state = StatusReady
    ]_vars
====
